---- MODULE Spec2Model ----
(***************************************************************************)
(* Soulvan AI presentation core:                                           *)
(*   - UBTService_ThreatUpdate (AI/SoulvanThreatService.{h,cpp}): the      *)
(*     behaviour-tree service that scores threat and derives the motif     *)
(*     intensity, writing three blackboard slots per tick;                 *)
(*   - USoulvanMotifComponent (AI/SoulvanMotifComponent.{h,cpp}): the      *)
(*     component that owns (CurrentMotif, CurrentIntensity) and drives     *)
(*     four Niagara overlays and the music bus;                            *)
(*   - USoulvanWalletSubsystem (Wallet/SoulvanWalletSubsystem.{h,cpp}):    *)
(*     the wallet stub whose operations complete in timer callbacks.       *)
(*                                                                         *)
(* float values are modelled as exact rationals <<num, den>> in lowest     *)
(* terms with den > 0, so an equality in a property is an equality of      *)
(* real numbers; float rounding and non-finite values are outside the      *)
(* model.  World positions are integer triples counted in grid steps,      *)
(* GridPerUnit steps to one world unit; the sampled positions have exact   *)
(* mutual distances.                                                       *)
(***************************************************************************)
EXTENDS Integers, Sequences, FiniteSets, Bags

VARIABLES
    \* ---- UBTService_ThreatUpdate: configuration (UPROPERTY EditAnywhere)
    RivalWeight, PoliceWeight, SpeedWeight, DamageWeight, MaxSpeedKmh,
    \* ---- world / blackboard inputs read by TickNode
    \* (as sampled by the latest tick that read them)
    selfPos,          \* SelfPawn->GetActorLocation()
    pawnMotion,       \* [vehicle |-> BOOLEAN, vel |-> signed forward velocity, cm/s]
    bbRival,          \* blackboard RivalKey: NoActor or the rival's location
    bbLastThreatPos,  \* blackboard LastThreatPosKey
    bbDamagePct,      \* blackboard DamagePctKey
    \* ---- blackboard slots written by TickNode
    bbThreatLevel, bbSpeedKmh, bbMotifIntensity,
    lastTick,         \* outcome of the latest TickNode: "none", "skipped", "written"
    produced,         \* some TickNode has written the three slots
    \* ---- USoulvanMotifComponent: configuration (UPROPERTY EditAnywhere)
    overlays,         \* kind -> BOOLEAN: is the Niagara component assigned
    hasMusicBus,      \* is MusicBus assigned
    music,            \* kind -> track id or NoTrack (StormMusic .. OracleMusic)
    \* ---- USoulvanMotifComponent: state
    CurrentMotif, CurrentIntensity,
    begun,            \* BeginPlay has run
    active,           \* kind -> BOOLEAN: the Niagara component's active flag
    emission,         \* kind -> "EmissionRate" parameter of the Niagara component
    busSound,         \* MusicBus->Sound
    busPitch, busVolume,
    playCount,        \* number of MusicBus->Play() calls issued
    lastCall,         \* <<>> or <<record of the latest SetMotif call>>
    \* ---- USoulvanWalletSubsystem: members
    bIsUnlocked, WalletAddress,
    CachedBalances, CachedNfts, CachedProposals,
    PendingRewards,   \* TArray<FString>
    \* ---- USoulvanWalletSubsystem: its timers and what an observer has seen
    timers,           \* bag of pending one-shot timers [kind, due, capture]
    alive,            \* Deinitialize has not run
    calls,            \* number of API calls that had an effect
    accepted,         \* operation -> number of calls that were accepted
    broadcast,        \* delegate -> number of Broadcast() calls made
    lockStanding      \* a lock or Deinitialize has run, no UnlockWallet call since

threatVars == <<RivalWeight, PoliceWeight, SpeedWeight, DamageWeight, MaxSpeedKmh,
                selfPos, pawnMotion, bbRival, bbLastThreatPos, bbDamagePct,
                bbThreatLevel, bbSpeedKmh, bbMotifIntensity, lastTick, produced>>

motifVars == <<overlays, hasMusicBus, music, CurrentMotif, CurrentIntensity, begun,
               active, emission, busSound, busPitch, busVolume, playCount,
               lastCall>>

walletVars == <<bIsUnlocked, WalletAddress, CachedBalances, CachedNfts, CachedProposals,
                PendingRewards, timers, alive, calls, accepted, broadcast, lockStanding>>

vars == <<threatVars, motifVars, walletVars>>

-----------------------------------------------------------------------------
(* Rational arithmetic standing for float arithmetic.                      *)

Abs(n) == IF n < 0 THEN -n ELSE n

RECURSIVE GCD(_, _)
GCD(a, b) == IF b = 0 THEN a ELSE GCD(b, a % b)

\* The rational n/d (d # 0) in lowest terms with a positive denominator.
Rat(n, d) ==
    LET g == GCD(Abs(n), Abs(d))
        s == IF d < 0 THEN -1 ELSE 1
    IN  <<(s * n) \div g, (s * d) \div g>>

Zero == Rat(0, 1)
One  == Rat(1, 1)

RAdd(a, b) == Rat(a[1] * b[2] + b[1] * a[2], a[2] * b[2])
RMul(a, b) == Rat(a[1] * b[1], a[2] * b[2])
RDiv(a, b) == Rat(a[1] * b[2], a[2] * b[1])
RLt(a, b)  == a[1] * b[2] < b[1] * a[2]
RLe(a, b)  == a[1] * b[2] <= b[1] * a[2]
RAbs(a)    == <<Abs(a[1]), a[2]>>

\* FMath::Max(A, B)
FMax(a, b) == IF RLt(b, a) THEN a ELSE b

\* FMath::Clamp(X, Min, Max): (X < Min) ? Min : (X < Max) ? X : Max
Clamp(x, lo, hi) == IF RLt(x, lo) THEN lo ELSE IF RLt(x, hi) THEN x ELSE hi

\* FMath::Lerp(A, B, Alpha): A + Alpha * (B - A)
Lerp(a, b, alpha) == RAdd(a, RMul(alpha, RAdd(b, RMul(Rat(-1, 1), a))))

-----------------------------------------------------------------------------
(* Sampled inputs.                                                         *)

GridPerUnit == 2

\* A null AActor*; a rival actor is stood for by its location.
NoActor == <<>>

ZeroVector == <<0, 0, 0>>

SelfPositions == {<<0, 0, 0>>, <<3, 0, 0>>}

RivalPositions == {<<1, 0, 0>>, <<3, 0, 0>>, <<23, 0, 0>>}

PolicePositions == {<<0, 0, 0>>, <<3, 0, 0>>, <<0, 4, 0>>}

\* A vehicle reversing at 100 km/h, a vehicle at 110 km/h, and a 300 km/h
\* non-vehicle pawn whose velocity points backwards (only its size is read).
PawnMotions ==
    { [vehicle |-> TRUE,  vel |-> Rat(-25000, 9)],
      [vehicle |-> TRUE,  vel |-> Rat(27500, 9)],
      [vehicle |-> FALSE, vel |-> Rat(-75000, 9)] }

DamageSamples == {Rat(-1, 5), Rat(1, 5), Rat(13, 10)}

\* <<RivalWeight, PoliceWeight, SpeedWeight, DamageWeight, MaxSpeedKmh>>
DefaultWeights == <<Rat(45, 100), Rat(35, 100), Rat(15, 100), Rat(5, 100), Rat(220, 1)>>

WeightConfigs ==
    { DefaultWeights,
      <<Rat(150, 100), Rat(120, 100), Rat(90, 100), Rat(60, 100), Rat(100, 1)>>,
      <<Rat(50, 100), Rat(-35, 100), Rat(-15, 100), Rat(-5, 100), Rat(220, 1)>> }

-----------------------------------------------------------------------------
(* UBTService_ThreatUpdate                                                 *)

\* FVector::IsZero()
IsZero(v) == v[1] = 0 /\ v[2] = 0 /\ v[3] = 0

\* The exact integer square root; the sampled positions only produce squares.
Sqrt(n) == CHOOSE r \in 0..n : r * r = n

\* FVector::Distance(A, B), in world units.
Distance(a, b) ==
    Rat(Sqrt((a[1] - b[1]) * (a[1] - b[1]) + (a[2] - b[2]) * (a[2] - b[2])
             + (a[3] - b[3]) * (a[3] - b[3])), GridPerUnit)

InverseProximity_PlusOne(dist) == RDiv(One, RAdd(One, dist))

\* 1.f / FMath::Max(1.f, Dist)
InverseProximity(dist) == RDiv(One, FMax(One, dist))

RivalProx_Farther(Rival, SelfPos) ==
    IF Rival # NoActor THEN Clamp(RMul(Distance(SelfPos, Rival), Rat(1, 100)), Zero, One)
    ELSE Zero

RivalProx(Rival, SelfPos) ==
    IF Rival # NoActor THEN InverseProximity(Distance(SelfPos, Rival)) ELSE Zero

PoliceProx_NoSentinel(PolicePos, SelfPos) ==
    InverseProximity(Distance(SelfPos, PolicePos))

PoliceProx(PolicePos, SelfPos) ==
    IF ~IsZero(PolicePos) THEN InverseProximity(Distance(SelfPos, PolicePos)) ELSE Zero

SpeedRisk_Unclamped(Speed, maxSpeed) == RDiv(Speed, maxSpeed)

SpeedRisk(Speed, maxSpeed) == Clamp(RDiv(Speed, maxSpeed), Zero, One)

DamageRisk(Damage) == Clamp(Damage, Zero, One)

WeightedSum_SwappedWeights(w, Rival, PolicePos, Speed, Damage, SelfPos) ==
    RAdd(RAdd(RMul(w[1], RivalProx(Rival, SelfPos)),
              RMul(w[2], PoliceProx(PolicePos, SelfPos))),
         RAdd(RMul(w[4], SpeedRisk(Speed, w[5])),
              RMul(w[3], DamageRisk(Damage))))

\* The weighted sum before the final clamp; w is <<rival, police, speed, damage, max>>.
WeightedSum(w, Rival, PolicePos, Speed, Damage, SelfPos) ==
    RAdd(RAdd(RMul(w[1], RivalProx(Rival, SelfPos)),
              RMul(w[2], PoliceProx(PolicePos, SelfPos))),
         RAdd(RMul(w[3], SpeedRisk(Speed, w[5])),
              RMul(w[4], DamageRisk(Damage))))

ThreatOf_Unclamped(w, Rival, PolicePos, Speed, Damage, SelfPos) ==
    WeightedSum(w, Rival, PolicePos, Speed, Damage, SelfPos)

ThreatOf(w, Rival, PolicePos, Speed, Damage, SelfPos) ==
    Clamp(WeightedSum(w, Rival, PolicePos, Speed, Damage, SelfPos), Zero, One)

Weights == <<RivalWeight, PoliceWeight, SpeedWeight, DamageWeight, MaxSpeedKmh>>

\* UBTService_ThreatUpdate::CalculateThreat with the instance's weights.
CalculateThreat(Rival, PolicePos, Speed, Damage, SelfPos) ==
    ThreatOf(Weights, Rival, PolicePos, Speed, Damage, SelfPos)

\* cm/s to km/h
CmsToKmh == Rat(36, 1000)

\* The speed TickNode measures: forward speed of a wheeled vehicle (signed),
\* else the size of the pawn's velocity.
MeasuredSpeedKmh(m) ==
    IF m.vehicle THEN RMul(m.vel, CmsToKmh) ELSE RMul(RAbs(m.vel), CmsToKmh)

MotifIntensityOf_Swapped(Threat) ==
    Clamp(RAdd(Rat(6, 10), RMul(Threat, Rat(4, 10))), Zero, One)

\* FMath::Clamp(0.4f + Threat * 0.6f, 0.f, 1.f)
MotifIntensityOf(Threat) == Clamp(RAdd(Rat(4, 10), RMul(Threat, Rat(6, 10))), Zero, One)

ThreatInit ==
    /\ \E w \in WeightConfigs :
          /\ RivalWeight = w[1]
          /\ PoliceWeight = w[2]
          /\ SpeedWeight = w[3]
          /\ DamageWeight = w[4]
          /\ MaxSpeedKmh = w[5]
    /\ selfPos = ZeroVector
    /\ pawnMotion = [vehicle |-> FALSE, vel |-> Zero]
    /\ bbRival = NoActor
    /\ bbLastThreatPos = ZeroVector
    /\ bbDamagePct = Zero
    /\ bbThreatLevel = Zero
    /\ bbSpeedKmh = Zero
    /\ bbMotifIntensity = Zero
    /\ lastTick = "none"
    /\ produced = FALSE

\* The world one tick samples: what TickNode reads from the pawn and from the
\* input keys of the blackboard.
Worlds ==
    [ self : SelfPositions, motion : PawnMotions,
      rival : {NoActor} \cup RivalPositions,
      lastThreatPos : PolicePositions, damage : DamageSamples ]

threatConfig == <<RivalWeight, PoliceWeight, SpeedWeight, DamageWeight, MaxSpeedKmh>>

threatInputs == <<selfPos, pawnMotion, bbRival, bbLastThreatPos, bbDamagePct>>

threatOutputs == <<bbThreatLevel, bbSpeedKmh, bbMotifIntensity, produced>>

TickNode_SpeedBeforePawnCheck(hasBlackboard, hasController, hasPawn, world) ==
    IF ~hasBlackboard \/ ~hasController
    THEN /\ lastTick' = "skipped"
         /\ UNCHANGED <<threatInputs, threatOutputs>>
    ELSE IF ~hasPawn
    THEN /\ lastTick' = "skipped"
         /\ bbSpeedKmh' = Zero
         /\ UNCHANGED <<threatInputs, bbThreatLevel, bbMotifIntensity, produced>>
    ELSE \E SpeedKmh \in {MeasuredSpeedKmh(world.motion)} :
         \E Threat \in {CalculateThreat(world.rival, world.lastThreatPos, SpeedKmh,
                                       world.damage, world.self)} :
             /\ selfPos' = world.self
             /\ pawnMotion' = world.motion
             /\ bbRival' = world.rival
             /\ bbLastThreatPos' = world.lastThreatPos
             /\ bbDamagePct' = world.damage
             /\ bbThreatLevel' = Threat
             /\ bbSpeedKmh' = SpeedKmh
             /\ bbMotifIntensity' = MotifIntensityOf(Threat)
             /\ lastTick' = "written"
             /\ produced' = TRUE

\* UBTService_ThreatUpdate::TickNode.  The first three arguments say whether the
\* blackboard component, the AI controller and its pawn resolve this tick; world
\* is what the tick reads when they do.
TickNode(hasBlackboard, hasController, hasPawn, world) ==
    IF ~hasBlackboard \/ ~hasController \/ ~hasPawn
    THEN /\ lastTick' = "skipped"
         /\ UNCHANGED <<threatInputs, threatOutputs>>
    ELSE \E SpeedKmh \in {MeasuredSpeedKmh(world.motion)} :
         \E Threat \in {CalculateThreat(world.rival, world.lastThreatPos, SpeedKmh,
                                       world.damage, world.self)} :
             /\ selfPos' = world.self
             /\ pawnMotion' = world.motion
             /\ bbRival' = world.rival
             /\ bbLastThreatPos' = world.lastThreatPos
             /\ bbDamagePct' = world.damage
             /\ bbThreatLevel' = Threat
             /\ bbSpeedKmh' = SpeedKmh
             /\ bbMotifIntensity' = MotifIntensityOf(Threat)
             /\ lastTick' = "written"
             /\ produced' = TRUE

CurrentWorld ==
    [ self |-> selfPos, motion |-> pawnMotion, rival |-> bbRival,
      lastThreatPos |-> bbLastThreatPos, damage |-> bbDamagePct ]

\* A tick in which one of the three owners is missing.
TickWithoutOwner ==
    /\ \E hb \in BOOLEAN, hc \in BOOLEAN, hp \in BOOLEAN :
          /\ ~(hb /\ hc /\ hp)
          /\ TickNode(hb, hc, hp, CurrentWorld)
    /\ UNCHANGED <<threatConfig, motifVars, walletVars>>

\* A tick that finds its owners, in any sampled world.
Tick ==
    /\ \E world \in Worlds : TickNode(TRUE, TRUE, TRUE, world)
    /\ UNCHANGED <<threatConfig, motifVars, walletVars>>

-----------------------------------------------------------------------------------------------------------------------------------------------------
(* USoulvanMotifComponent                                                  *)

\* enum class EMotif
Motifs == {"Storm", "Calm", "Cosmic", "Oracle"}

\* A null USoundBase*.
NoTrack == "NoTrack"

\* Sound assets a designer may assign to StormMusic .. OracleMusic; two
\* properties may name the same asset, and a property may be left null.
MusicConfigs ==
    { [Storm |-> "TrackA", Calm |-> "TrackB", Cosmic |-> "TrackC", Oracle |-> "TrackD"],
      [Storm |-> "TrackA", Calm |-> "TrackA", Cosmic |-> NoTrack,  Oracle |-> "TrackD"] }

\* Which of StormRain, CalmFog, CosmicAurora, OracleRunes are assigned.
OverlayConfigs ==
    { [k \in Motifs |-> TRUE],
      [k \in Motifs |-> k \in {"Calm", "Oracle"}],
      [k \in Motifs |-> FALSE] }

\* Intensity01 arguments: below range, inside, above.
IntensitySamples == {Rat(-3, 10), Rat(3, 10), Rat(13, 10)}

MaxPlays == 2

\* The multiplier UpdateVisualFX applies to BaseRate for each overlay.
RateMultiplier(k) ==
    CASE k = "Storm"  -> One
      [] k = "Calm"   -> Rat(5, 10)
      [] k = "Cosmic" -> Rat(8, 10)
      [] k = "Oracle" -> Rat(6, 10)

\* USoulvanMotifComponent::USoulvanMotifComponent, with the properties a
\* designer sets on the instance and the state the engine gives the
\* sub-components (Niagara components auto-activated or not, the sound the
\* audio component was given).
MotifInit ==
    /\ overlays \in OverlayConfigs
    /\ hasMusicBus \in BOOLEAN
    /\ music \in MusicConfigs
    /\ CurrentMotif = "Storm"
    /\ CurrentIntensity = Rat(1, 2)
    /\ begun = FALSE
    /\ \E auto \in BOOLEAN : active = [k \in Motifs |-> overlays[k] /\ auto]
    /\ emission = [k \in Motifs |-> Zero]
    /\ busSound \in (IF hasMusicBus THEN {NoTrack, "TrackA"} ELSE {NoTrack})
    /\ busPitch = One
    /\ busVolume = One
    /\ playCount = 0
    /\ lastCall = <<>>

ActiveAfter_NeverDeactivates(Motif) ==
    [k \in Motifs |-> IF overlays[k] THEN (Motif = k \/ active[k]) ELSE active[k]]

\* USoulvanMotifComponent::UpdateVisualFX: the active flags after the call.
ActiveAfter(Motif) ==
    [k \in Motifs |-> IF overlays[k] THEN Motif = k ELSE active[k]]

EmissionAfter_ActiveOnly(Intensity) ==
    [k \in Motifs |->
        IF overlays[k] /\ ActiveAfter(CurrentMotif')[k]
        THEN RMul(Lerp(Rat(10, 1), Rat(200, 1), Intensity), RateMultiplier(k))
        ELSE emission[k]]

\* USoulvanMotifComponent::UpdateVisualFX / SetNiagaraFloatParameter: the
\* "EmissionRate" parameters after the call.
EmissionAfter(Intensity) ==
    [k \in Motifs |->
        IF overlays[k] THEN RMul(Lerp(Rat(10, 1), Rat(200, 1), Intensity), RateMultiplier(k))
        ELSE emission[k]]

TargetMusic_StormFallback(Motif) ==
    IF music[Motif] = NoTrack THEN music["Storm"] ELSE music[Motif]

\* The switch of UpdateAudio.
TargetMusic(Motif) == music[Motif]

StartsTrack_Always(Motif) == hasMusicBus /\ TargetMusic(Motif) # NoTrack

\* UpdateAudio sets the sound and calls Play().
StartsTrack(Motif) ==
    hasMusicBus /\ TargetMusic(Motif) # NoTrack /\ busSound # TargetMusic(Motif)

\* USoulvanMotifComponent::UpdateAudio
UpdateAudio(Motif, Intensity) ==
    IF ~hasMusicBus
    THEN UNCHANGED <<busSound, busPitch, busVolume, playCount>>
    ELSE /\ IF StartsTrack(Motif)
            THEN busSound' = TargetMusic(Motif) /\ playCount' = playCount + 1
            ELSE UNCHANGED <<busSound, playCount>>
         /\ busPitch' = Lerp(Rat(95, 100), Rat(108, 100), Intensity)
         /\ busVolume' = Lerp(Rat(6, 10), One, Intensity)

\* USoulvanMotifComponent::UpdateVisualFX
UpdateVisualFX(Motif, Intensity) ==
    /\ active' = ActiveAfter(Motif)
    /\ emission' = EmissionAfter(Intensity)

StoredIntensity_Unclamped(Intensity01) == Intensity01

\* FMath::Clamp(Intensity01, 0.f, 1.f)
StoredIntensity(Intensity01) == Clamp(Intensity01, Zero, One)

\* The overlay kinds whose Niagara component is assigned.
Assigned == {k \in Motifs : overlays[k]}

Presentation_Memoized(Motif, Intensity) ==
    IF Motif = CurrentMotif /\ Intensity = CurrentIntensity
    THEN [flags |-> <<>>, rates |-> <<>>, bus |-> <<>>]
    ELSE [ flags |-> [k \in Assigned |-> Motif = k],
           rates |-> [k \in Assigned |->
                         RMul(Lerp(Rat(10, 1), Rat(200, 1), Intensity), RateMultiplier(k))],
           bus   |-> IF hasMusicBus
                     THEN << [ pitch  |-> Lerp(Rat(95, 100), Rat(108, 100), Intensity),
                               volume |-> Lerp(Rat(6, 10), One, Intensity) ] >>
                     ELSE <<>> ]

\* What one UpdateVisualFX + UpdateAudio pass issues to the sub-components:
\* SetActive and SetFloatParameter("EmissionRate") on every assigned overlay,
\* SetPitchMultiplier and SetVolumeMultiplier on the music bus if assigned.
Presentation(Motif, Intensity) ==
    [ flags |-> [k \in Assigned |-> Motif = k],
      rates |-> [k \in Assigned |->
                    RMul(Lerp(Rat(10, 1), Rat(200, 1), Intensity), RateMultiplier(k))],
      bus   |-> IF hasMusicBus
                THEN << [ pitch  |-> Lerp(Rat(95, 100), Rat(108, 100), Intensity),
                          volume |-> Lerp(Rat(6, 10), One, Intensity) ] >>
                ELSE <<>> ]

\* USoulvanMotifComponent::SetMotif.  lastCall records the call: its arguments,
\* whether it started a track, whether the call before it named the same
\* motif, and what it issued to the sub-components; seq flips at every call.
SetMotif(Motif, Intensity01) ==
    /\ playCount < MaxPlays
    /\ CurrentMotif' = Motif
    /\ CurrentIntensity' = StoredIntensity(Intensity01)
    /\ UpdateVisualFX(Motif, StoredIntensity(Intensity01))
    /\ UpdateAudio(Motif, StoredIntensity(Intensity01))
    /\ lastCall' = << [ seq     |-> IF lastCall = <<>> THEN 0 ELSE 1 - lastCall[1].seq,
                        motif   |-> Motif,
                        arg     |-> Intensity01,
                        started |-> playCount' # playCount,
                        repeat  |-> lastCall # <<>> /\ lastCall[1].motif = Motif,
                        issued  |-> Presentation(Motif, StoredIntensity(Intensity01)) ] >>

\* A caller (Blueprint or C++) sets the motif.
CallSetMotif ==
    /\ \E m \in Motifs, x \in IntensitySamples : SetMotif(m, x)
    /\ UNCHANGED <<overlays, hasMusicBus, music, begun, threatVars, walletVars>>

BeginPlay_ResetsToDefault ==
    /\ ~begun
    /\ begun' = TRUE
    /\ SetMotif("Storm", Rat(1, 2))
    /\ UNCHANGED <<overlays, hasMusicBus, music, threatVars, walletVars>>

\* USoulvanMotifComponent::BeginPlay
BeginPlay ==
    /\ ~begun
    /\ begun' = TRUE
    /\ SetMotif(CurrentMotif, CurrentIntensity)
    /\ UNCHANGED <<overlays, hasMusicBus, music, threatVars, walletVars>>

\* USoulvanMotifComponent::TickComponent
TickComponent ==
    /\ begun
    /\ UNCHANGED vars

\* The threat service at rest, for the specification of the component alone.
ThreatIdle ==
    /\ RivalWeight = DefaultWeights[1]
    /\ PoliceWeight = DefaultWeights[2]
    /\ SpeedWeight = DefaultWeights[3]
    /\ DamageWeight = DefaultWeights[4]
    /\ MaxSpeedKmh = DefaultWeights[5]
    /\ selfPos = ZeroVector
    /\ pawnMotion = [vehicle |-> FALSE, vel |-> Zero]
    /\ bbRival = NoActor
    /\ bbLastThreatPos = ZeroVector
    /\ bbDamagePct = Zero
    /\ bbThreatLevel = Zero
    /\ bbSpeedKmh = Zero
    /\ bbMotifIntensity = Zero
    /\ lastTick = "none"
    /\ produced = FALSE

\* The component at rest, for the specification of the threat service alone.
MotifIdle ==
    /\ overlays = [k \in Motifs |-> TRUE]
    /\ hasMusicBus = TRUE
    /\ music = [k \in Motifs |-> NoTrack]
    /\ CurrentMotif = "Storm"
    /\ CurrentIntensity = Rat(1, 2)
    /\ begun = FALSE
    /\ active = [k \in Motifs |-> FALSE]
    /\ emission = [k \in Motifs |-> Zero]
    /\ busSound = NoTrack
    /\ busPitch = One
    /\ busVolume = One
    /\ playCount = 0
    /\ lastCall = <<>>

-----------------------------------------------------------------------------
(* USoulvanWalletSubsystem                                                 *)
(* An FString is a sequence of one-character strings.  Every operation that *)
(* completes later sets a one-shot timer on the game instance's timer       *)
(* manager with a fresh FTimerHandle; time is counted in half seconds.      *)

\* Passphrases a caller may give (shorter and longer than four characters).
Passphrases == { <<"k", "e", "y">>, <<"s", "o", "u", "l", "v", "a", "n", "1">> }

\* Amount arguments of SendTokens.
AmountSamples == {Rat(25, 1)}

\* MetadataUri arguments of MintNft.
UriSamples == {"ipfs://a", "ipfs://b"}

\* ProposalId arguments of VoteOnProposal.
ProposalIds == {"1"}

\* Choice arguments of VoteOnProposal.
Choices == {0, 1}

\* API calls made in one run.
MaxCalls == 3

\* Timer delays, in half seconds.
UnlockDelay == 1
SendDelay == 2
FetchDelay == 1
MintDelay == 4
VoteDelay == 3

\* FString::ToUpper on the characters of the sampled passphrases.
ToUpper(s) ==
    LET Upper == [ k |-> "K", e |-> "E", y |-> "Y", s |-> "S", o |-> "O",
                   u |-> "U", l |-> "L", v |-> "V", a |-> "A", n |-> "N" ]
    IN  [i \in 1..Len(s) |-> IF s[i] \in DOMAIN Upper THEN Upper[s[i]] ELSE s[i]]

\* FString::Left(Count)
Left(s, Count) == SubSeq(s, 1, IF Count < Len(s) THEN Count ELSE Len(s))

\* FString::Right(Count)
Right(s, Count) == SubSeq(s, IF Count < Len(s) THEN Len(s) - Count + 1 ELSE 1, Len(s))

\* FString::Printf(TEXT("0x%s...%s"), Left(4).ToUpper(), Right(4).ToUpper())
AddressOf(Passphrase) ==
    <<"0", "x">> \o ToUpper(Left(Passphrase, 4)) \o <<".", ".", ".">>
                 \o ToUpper(Right(Passphrase, 4))

\* FBalanceState()
DefaultBalances ==
    [SoulvanCoin |-> Zero, Eth |-> Zero, NftCount |-> 0, BadgeCount |-> 0, VotingPower |-> 0]

\* The balances the GetBalances callback reports.
FetchedBalances ==
    [ SoulvanCoin |-> Rat(1000, 1), Eth |-> Rat(1, 2), NftCount |-> 5, BadgeCount |-> 2,
      VotingPower |-> 100 ]

\* The NFT list the GetNfts callback reports (by TokenId).
FetchedNfts == << "1" >>

\* The proposal list the GetProposals callback reports (by Id).
FetchedProposals == << "1" >>

\* Operations whose acceptance is counted, and the delegates.
Operations == {"UnlockWallet", "LockWallet", "SendTokens", "MintNft", "VoteOnProposal"}
Delegates == {"OnWalletUnlocked", "OnWalletLocked", "OnTransactionComplete",
              "OnNftMinted", "OnVoteCast"}

\* The members after construction (header initialisers), no timer set.
WalletInit ==
    /\ bIsUnlocked = FALSE
    /\ WalletAddress = <<>>
    /\ CachedBalances = DefaultBalances
    /\ CachedNfts = <<>>
    /\ CachedProposals = <<>>
    /\ PendingRewards = <<>>
    /\ timers = EmptyBag
    /\ alive = TRUE
    /\ calls = 0
    /\ accepted = [o \in Operations |-> 0]
    /\ broadcast = [d \in Delegates |-> 0]
    /\ lockStanding = FALSE

\* The wallet at rest, for the specifications of the other two classes.
WalletIdle == WalletInit

\* A timer as set by SetTimer(TimerHandle, lambda, delay, false); a further
\* field holds what the lambda captured.
Timer(kind, delay) == [kind |-> kind, due |-> delay]

\* Number of pending timers of a kind.
Pending(kind) ==
    BagCardinality([t \in {x \in BagToSet(timers) : x.kind = kind} |-> timers[t]])

Expired_Looping(t) == timers

\* The timer manager drops a one-shot timer once its callback has run.
Expired(t) == timers (-) SetToBag({t})

\* TArray::Add
ArrayAdd(arr, item) == Append(arr, item)

\* TArray::Remove(Item): removes every element equal to Item, keeping the order.
ArrayRemove(arr, item) == SelectSeq(arr, LAMBDA x : x # item)

\* The timers the three fetch operations set when the wallet is unlocked
\* (GetBalances, GetNfts, GetProposals return at once when it is locked).
FetchTimers(unlocked, kinds) ==
    IF unlocked
    THEN [t \in {Timer(k, FetchDelay) : k \in kinds} |-> 1]
    ELSE EmptyBag

\* A call that returns at its `if (!bIsUnlocked)` guard: nothing changes.
Rejected == UNCHANGED walletVars

\* USoulvanWalletSubsystem::UnlockWallet
UnlockWallet(Passphrase) ==
    /\ timers' = timers (+) SetToBag({[kind |-> "Unlock", due |-> UnlockDelay, Passphrase |-> Passphrase]})
    /\ accepted' = [accepted EXCEPT !["UnlockWallet"] = @ + 1]
    /\ lockStanding' = FALSE
    /\ calls' = calls + 1
    /\ UNCHANGED <<bIsUnlocked, WalletAddress, CachedBalances, CachedNfts, CachedProposals,
                   PendingRewards, alive, broadcast>>

\* USoulvanWalletSubsystem::LockWallet, on the members and delegates.
LockWallet ==
    /\ bIsUnlocked' = FALSE
    /\ WalletAddress' = <<>>
    /\ CachedBalances' = DefaultBalances
    /\ CachedNfts' = <<>>
    /\ CachedProposals' = <<>>
    /\ broadcast' = [broadcast EXCEPT !["OnWalletLocked"] = @ + 1]
    /\ accepted' = [accepted EXCEPT !["LockWallet"] = @ + 1]
    /\ lockStanding' = TRUE
    /\ UNCHANGED <<PendingRewards, timers>>

\* USoulvanWalletSubsystem::SendTokens
SendTokens(Amount) ==
    IF ~bIsUnlocked THEN Rejected
    ELSE /\ timers' = timers (+) SetToBag({[kind |-> "Send", due |-> SendDelay, Amount |-> Amount]})
         /\ accepted' = [accepted EXCEPT !["SendTokens"] = @ + 1]
         /\ calls' = calls + 1
         /\ UNCHANGED <<bIsUnlocked, WalletAddress, CachedBalances, CachedNfts,
                        CachedProposals, PendingRewards, alive, broadcast, lockStanding>>

\* USoulvanWalletSubsystem::GetBalances / GetNfts / GetProposals called from
\* outside; kind is "Balances", "Nfts" or "Proposals".
Fetch(kind) ==
    IF ~bIsUnlocked THEN Rejected
    ELSE /\ timers' = timers (+) FetchTimers(TRUE, {kind})
         /\ calls' = calls + 1
         /\ UNCHANGED <<bIsUnlocked, WalletAddress, CachedBalances, CachedNfts,
                        CachedProposals, PendingRewards, alive, accepted, broadcast,
                        lockStanding>>

\* USoulvanWalletSubsystem::MintNft
MintNft(MetadataUri) ==
    IF ~bIsUnlocked THEN Rejected
    ELSE /\ PendingRewards' = ArrayAdd(PendingRewards, MetadataUri)
         /\ timers' = timers (+) SetToBag({[kind |-> "Mint", due |-> MintDelay, MetadataUri |-> MetadataUri]})
         /\ accepted' = [accepted EXCEPT !["MintNft"] = @ + 1]
         /\ calls' = calls + 1
         /\ UNCHANGED <<bIsUnlocked, WalletAddress, CachedBalances, CachedNfts,
                        CachedProposals, alive, broadcast, lockStanding>>

\* USoulvanWalletSubsystem::VoteOnProposal.  The lambda captures Choice and
\* never reads it.
VoteOnProposal(ProposalId, Choice) ==
    IF ~bIsUnlocked THEN Rejected
    ELSE /\ timers' = timers (+) SetToBag({[kind |-> "Vote", due |-> VoteDelay, ProposalId |-> ProposalId]})
         /\ accepted' = [accepted EXCEPT !["VoteOnProposal"] = @ + 1]
         /\ calls' = calls + 1
         /\ UNCHANGED <<bIsUnlocked, WalletAddress, CachedBalances, CachedNfts,
                        CachedProposals, PendingRewards, alive, broadcast, lockStanding>>

\* ---- API calls, made while the subsystem is alive
CallUnlockWallet ==
    /\ alive /\ calls < MaxCalls
    /\ \E p \in Passphrases : UnlockWallet(p)
    /\ UNCHANGED <<threatVars, motifVars>>

CallLockWallet ==
    /\ alive /\ calls < MaxCalls
    /\ LockWallet
    /\ calls' = calls + 1
    /\ UNCHANGED <<alive, threatVars, motifVars>>

CallSendTokens ==
    /\ alive /\ calls < MaxCalls
    /\ \E a \in AmountSamples : SendTokens(a)
    /\ UNCHANGED <<threatVars, motifVars>>

CallFetch ==
    /\ alive /\ calls < MaxCalls
    /\ \E k \in {"Balances", "Nfts", "Proposals"} : Fetch(k)
    /\ UNCHANGED <<threatVars, motifVars>>

CallMintNft ==
    /\ alive /\ calls < MaxCalls
    /\ \E u \in UriSamples : MintNft(u)
    /\ UNCHANGED <<threatVars, motifVars>>

CallVoteOnProposal ==
    /\ alive /\ calls < MaxCalls
    /\ \E id \in ProposalIds, c \in Choices : VoteOnProposal(id, c)
    /\ UNCHANGED <<threatVars, motifVars>>

\* TransferNft, SubmitProposal, GetChronicleEntries, ExportSeed and
\* ChangePassphrase: a guard and a log line, no member is written.
CallStubOperation ==
    /\ alive
    /\ UNCHANGED vars

\* USoulvanWalletSubsystem::Deinitialize.  Nothing cancels the pending timers.
Deinitialize ==
    /\ alive
    /\ alive' = FALSE
    /\ IF bIsUnlocked
       THEN LockWallet
       ELSE /\ lockStanding' = TRUE
            /\ UNCHANGED <<bIsUnlocked, WalletAddress, CachedBalances, CachedNfts,
                           CachedProposals, PendingRewards, timers, accepted, broadcast>>
    /\ UNCHANGED <<calls, threatVars, motifVars>>

\* ---- the timer manager
\* Half a second passes; every timer that is due has run before.
AdvanceTime ==
    /\ timers # EmptyBag
    /\ \A t \in BagToSet(timers) : t.due > 0
    /\ timers' = [t \in {[x EXCEPT !.due = @ - 1] : x \in BagToSet(timers)} |->
                     timers[[t EXCEPT !.due = @ + 1]]]
    /\ UNCHANGED <<bIsUnlocked, WalletAddress, CachedBalances, CachedNfts, CachedProposals,
                   PendingRewards, alive, calls, accepted, broadcast, lockStanding>>
    /\ UNCHANGED <<threatVars, motifVars>>

\* The due timers of a kind.
Due(kind) == {t \in BagToSet(timers) : t.kind = kind /\ t.due = 0}

\* The UnlockWallet lambda and ProcessUnlockResponse(true, WalletAddress).
FireUnlock ==
    /\ \E t \in Due("Unlock") :
          /\ WalletAddress' = AddressOf(t.Passphrase)
          /\ bIsUnlocked' = TRUE
          /\ broadcast' = [broadcast EXCEPT !["OnWalletUnlocked"] = @ + 1]
          /\ timers' = Expired(t) (+) FetchTimers(TRUE, {"Balances", "Nfts", "Proposals"})
    /\ UNCHANGED <<CachedBalances, CachedNfts, CachedProposals, PendingRewards,
                   alive, calls, accepted, lockStanding, threatVars, motifVars>>

\* The SendTokens lambda.
FireSend ==
    /\ \E t \in Due("Send") :
          /\ broadcast' = [broadcast EXCEPT !["OnTransactionComplete"] = @ + 1]
          /\ CachedBalances' = [CachedBalances EXCEPT
                                   !.SoulvanCoin = RAdd(@, RMul(Rat(-1, 1), t.Amount))]
          /\ timers' = Expired(t)
    /\ UNCHANGED <<bIsUnlocked, WalletAddress, CachedNfts, CachedProposals, PendingRewards,
                   alive, calls, accepted, lockStanding, threatVars, motifVars>>

\* The GetBalances lambda and ProcessBalancesResponse.
FireBalances ==
    /\ \E t \in Due("Balances") :
          /\ CachedBalances' = FetchedBalances
          /\ timers' = Expired(t)
    /\ UNCHANGED <<bIsUnlocked, WalletAddress, CachedNfts, CachedProposals, PendingRewards,
                   alive, calls, accepted, broadcast, lockStanding, threatVars, motifVars>>

\* The MintNft lambda and ProcessMintResponse(true, TokenId, TxHash).
FireMint ==
    /\ \E t \in Due("Mint") :
          /\ broadcast' = [broadcast EXCEPT !["OnNftMinted"] = @ + 1]
          /\ timers' = Expired(t) (+) FetchTimers(bIsUnlocked, {"Nfts"})
          /\ PendingRewards' = ArrayRemove(PendingRewards, t.MetadataUri)
          /\ CachedBalances' = [CachedBalances EXCEPT !.NftCount = @ + 1]
    /\ UNCHANGED <<bIsUnlocked, WalletAddress, CachedNfts, CachedProposals,
                   alive, calls, accepted, lockStanding, threatVars, motifVars>>

\* The GetNfts lambda and ProcessNftsResponse.
FireNfts ==
    /\ \E t \in Due("Nfts") :
          /\ CachedNfts' = FetchedNfts
          /\ timers' = Expired(t)
    /\ UNCHANGED <<bIsUnlocked, WalletAddress, CachedBalances, CachedProposals,
                   PendingRewards, alive, calls, accepted, broadcast, lockStanding,
                   threatVars, motifVars>>

\* The VoteOnProposal lambda and ProcessVoteResponse(true, ProposalId, TxHash).
FireVote ==
    /\ \E t \in Due("Vote") :
          /\ broadcast' = [broadcast EXCEPT !["OnVoteCast"] = @ + 1]
          /\ timers' = Expired(t) (+) FetchTimers(bIsUnlocked, {"Proposals"})
    /\ UNCHANGED <<bIsUnlocked, WalletAddress, CachedBalances, CachedNfts, CachedProposals,
                   PendingRewards, alive, calls, accepted, lockStanding,
                   threatVars, motifVars>>

\* The GetProposals lambda and ProcessProposalsResponse.
FireProposals ==
    /\ \E t \in Due("Proposals") :
          /\ CachedProposals' = FetchedProposals
          /\ timers' = Expired(t)
    /\ UNCHANGED <<bIsUnlocked, WalletAddress, CachedBalances, CachedNfts,
                   PendingRewards, alive, calls, accepted, broadcast, lockStanding,
                   threatVars, motifVars>>

\* A due timer's callback runs.
FireTimer ==
    \/ FireUnlock
    \/ FireSend
    \/ FireBalances
    \/ FireMint
    \/ FireNfts
    \/ FireVote
    \/ FireProposals

-----------------------------------------------------------------------------

ThreatNext ==
    \/ Tick
    \/ TickWithoutOwner

InitThreat == ThreatInit /\ MotifIdle /\ WalletIdle

SpecThreat == InitThreat /\ [][ThreatNext]_vars

MotifNext ==
    \/ CallSetMotif
    \/ BeginPlay
    \/ TickComponent

InitMotif == MotifInit /\ ThreatIdle /\ WalletIdle

SpecMotif == InitMotif /\ [][MotifNext]_vars

WalletNext ==
    \/ CallUnlockWallet
    \/ CallLockWallet
    \/ CallSendTokens
    \/ CallFetch
    \/ CallMintNft
    \/ CallVoteOnProposal
    \/ CallStubOperation
    \/ Deinitialize
    \/ AdvanceTime
    \/ FireTimer

InitWallet == WalletInit /\ ThreatIdle /\ MotifIdle

SpecWallet == InitWallet /\ [][WalletNext]_vars

\* The timer manager is ticked every frame: time passes and a due timer runs.
SpecWalletFair ==
    /\ InitWallet
    /\ [][WalletNext]_vars
    /\ WF_vars(AdvanceTime)
    /\ WF_vars(FireTimer)

-----------------------------------------------------------------------------------------------------------------------------------------------------
(* Properties of UBTService_ThreatUpdate, checked under SpecThreat.  In a  *)
(* state with produced = TRUE the input variables hold the world the       *)
(* latest writing tick sampled and the slots hold what it wrote.           *)

InUnit(x) == RLe(Zero, x) /\ RLe(x, One)

SampledSpeeds == {MeasuredSpeedKmh(m) : m \in PawnMotions}

\* C1: for every weight configuration and every input the threat level and the
\* motif intensity derived from it lie in [0,1]: after any sequence of ticks the
\* ThreatLevel and MotifIntensity slots are in [0,1].
C1_Bounded ==
    /\ InUnit(bbThreatLevel)
    /\ InUnit(bbMotifIntensity)

\* A tick wrote a threat of exactly 1 although the weighted sum exceeds 1.
C1_Witness ==
    /\ lastTick = "written"
    /\ bbThreatLevel = One
    /\ RLt(One, WeightedSum(Weights, bbRival, bbLastThreatPos, bbSpeedKmh,
                            bbDamagePct, selfPos))

\* C2 as stated: with everything else fixed, a rival or a pursuer's last known
\* position moved closer to self never lowers the threat level, and a higher
\* speed or damage never lowers it.
C2_Original ==
    produced =>
       /\ bbRival # NoActor =>
             \A r2 \in RivalPositions :
                RLe(Distance(selfPos, r2), Distance(selfPos, bbRival)) =>
                   RLe(bbThreatLevel,
                       CalculateThreat(r2, bbLastThreatPos, bbSpeedKmh, bbDamagePct,
                                       selfPos))
       /\ \A p2 \in PolicePositions :
             RLe(Distance(selfPos, p2), Distance(selfPos, bbLastThreatPos)) =>
                RLe(bbThreatLevel,
                    CalculateThreat(bbRival, p2, bbSpeedKmh, bbDamagePct, selfPos))
       /\ \A s2 \in SampledSpeeds :
             RLe(bbSpeedKmh, s2) =>
                RLe(bbThreatLevel,
                    CalculateThreat(bbRival, bbLastThreatPos, s2, bbDamagePct, selfPos))
       /\ \A d2 \in DamageSamples :
             RLe(bbDamagePct, d2) =>
                RLe(bbThreatLevel,
                    CalculateThreat(bbRival, bbLastThreatPos, bbSpeedKmh, d2, selfPos))

\* C2 as amended: each monotonicity holds when the weight of its term is not
\* negative, and for the pursuer when the position moved to is not the zero
\* vector (which the service reads as "no pursuer").
C2_Monotone ==
    produced =>
       /\ (bbRival # NoActor /\ RLe(Zero, RivalWeight)) =>
             \A r2 \in RivalPositions :
                RLe(Distance(selfPos, r2), Distance(selfPos, bbRival)) =>
                   RLe(bbThreatLevel,
                       CalculateThreat(r2, bbLastThreatPos, bbSpeedKmh, bbDamagePct,
                                       selfPos))
       /\ RLe(Zero, PoliceWeight) =>
             \A p2 \in PolicePositions \ {ZeroVector} :
                RLe(Distance(selfPos, p2), Distance(selfPos, bbLastThreatPos)) =>
                   RLe(bbThreatLevel,
                       CalculateThreat(bbRival, p2, bbSpeedKmh, bbDamagePct, selfPos))
       /\ RLe(Zero, SpeedWeight) =>
             \A s2 \in SampledSpeeds :
                RLe(bbSpeedKmh, s2) =>
                   RLe(bbThreatLevel,
                       CalculateThreat(bbRival, bbLastThreatPos, s2, bbDamagePct,
                                       selfPos))
       /\ RLe(Zero, DamageWeight) =>
             \A d2 \in DamageSamples :
                RLe(bbDamagePct, d2) =>
                   RLe(bbThreatLevel,
                       CalculateThreat(bbRival, bbLastThreatPos, bbSpeedKmh, d2,
                                       selfPos))

\* With the default weights a tick scored a rival and a pursuer, and a strictly
\* closer rival position and a strictly closer pursuer position each score
\* strictly higher.
C2_Witness ==
    /\ lastTick = "written"
    /\ Weights = DefaultWeights
    /\ bbRival # NoActor
    /\ bbLastThreatPos # ZeroVector
    /\ \E r2 \in RivalPositions :
          /\ RLt(Distance(selfPos, r2), Distance(selfPos, bbRival))
          /\ RLt(bbThreatLevel,
                 CalculateThreat(r2, bbLastThreatPos, bbSpeedKmh, bbDamagePct, selfPos))
    /\ \E p2 \in PolicePositions \ {ZeroVector} :
          /\ RLt(Distance(selfPos, p2), Distance(selfPos, bbLastThreatPos))
          /\ RLt(bbThreatLevel,
                 CalculateThreat(bbRival, p2, bbSpeedKmh, bbDamagePct, selfPos))

\* C3: once a tick has produced a result, the MotifIntensity slot equals
\* clamp(0.4 + 0.6 * ThreatLevel slot, 0, 1).
C3_Derived ==
    produced =>
       LET x == RAdd(Rat(2, 5), RMul(Rat(3, 5), bbThreatLevel))
       IN  bbMotifIntensity =
              (IF RLt(x, Zero) THEN Zero ELSE IF RLt(One, x) THEN One ELSE x)

\* A tick wrote a threat strictly between 0 and 1 and the intensity derived from it.
C3_Witness ==
    /\ lastTick = "written"
    /\ RLt(Zero, bbThreatLevel) /\ RLt(bbThreatLevel, One)
    /\ RLt(Rat(2, 5), bbMotifIntensity) /\ RLt(bbMotifIntensity, One)

\* With no rival and a zero pursuer position the threat written is
\* clamp(SpeedWeight * speedRisk + DamageWeight * damageRisk, 0, 1).
C4_NoTargets ==
    LET q  == RDiv(bbSpeedKmh, MaxSpeedKmh)
        sr == IF RLt(q, Zero) THEN Zero ELSE IF RLt(One, q) THEN One ELSE q
        dr == IF RLt(bbDamagePct, Zero) THEN Zero
              ELSE IF RLt(One, bbDamagePct) THEN One ELSE bbDamagePct
        x  == RAdd(RMul(SpeedWeight, sr), RMul(DamageWeight, dr))
    IN  (bbRival = NoActor /\ bbLastThreatPos = ZeroVector) =>
           bbThreatLevel = (IF RLt(x, Zero) THEN Zero ELSE IF RLt(One, x) THEN One ELSE x)

\* C4 as stated: without rival and pursuer the threat is the clamped speed and
\* damage terms, and a rival or a pursuer position, at any world position,
\* contributes weight * 1/max(1, distance).
C4_Original ==
    produced =>
       /\ C4_NoTargets
       /\ bbRival # NoActor =>
             LET d == Distance(selfPos, bbRival)
             IN  RivalProx(bbRival, selfPos) = (IF RLt(One, d) THEN RDiv(One, d) ELSE One)
       /\ LET d == Distance(selfPos, bbLastThreatPos)
          IN  PoliceProx(bbLastThreatPos, selfPos) =
                 (IF RLt(One, d) THEN RDiv(One, d) ELSE One)

\* C4 as amended: a pursuer position equal to the zero vector counts as absent
\* and contributes 0, wherever self is; every other pursuer position and every
\* rival contributes weight * 1/max(1, distance), with a proximity that is not 0.
C4_Absent ==
    produced =>
       /\ C4_NoTargets
       /\ bbRival = NoActor => RivalProx(bbRival, selfPos) = Zero
       /\ bbRival # NoActor =>
             LET d == Distance(selfPos, bbRival)
             IN  /\ RivalProx(bbRival, selfPos) =
                       (IF RLt(One, d) THEN RDiv(One, d) ELSE One)
                 /\ RivalProx(bbRival, selfPos) # Zero
       /\ bbLastThreatPos = ZeroVector => PoliceProx(bbLastThreatPos, selfPos) = Zero
       /\ bbLastThreatPos # ZeroVector =>
             LET d == Distance(selfPos, bbLastThreatPos)
             IN  /\ PoliceProx(bbLastThreatPos, selfPos) =
                       (IF RLt(One, d) THEN RDiv(One, d) ELSE One)
                 /\ PoliceProx(bbLastThreatPos, selfPos) # Zero

\* A tick ran with no rival and the pursuer key at the zero vector while self
\* is away from the origin, and wrote a threat made of speed and damage only.
C4_Witness ==
    /\ lastTick = "written"
    /\ Weights = DefaultWeights
    /\ bbRival = NoActor
    /\ bbLastThreatPos = ZeroVector
    /\ selfPos # ZeroVector
    /\ RLt(Zero, bbThreatLevel)

\* C5 as stated: a rival or a pursuer position within one unit of self scores
\* exactly 1, and no score exceeds 1.
C5_Original ==
    produced =>
       /\ bbRival # NoActor =>
             /\ RLe(Distance(selfPos, bbRival), One) => RivalProx(bbRival, selfPos) = One
             /\ RLe(RivalProx(bbRival, selfPos), One)
       /\ RLe(Distance(selfPos, bbLastThreatPos), One) =>
             PoliceProx(bbLastThreatPos, selfPos) = One
       /\ RLe(PoliceProx(bbLastThreatPos, selfPos), One)

\* C5 as amended: the same, for a pursuer position other than the zero vector.
C5_Saturates ==
    produced =>
       /\ bbRival # NoActor =>
             /\ RLe(Distance(selfPos, bbRival), One) => RivalProx(bbRival, selfPos) = One
             /\ RLe(RivalProx(bbRival, selfPos), One)
       /\ (bbLastThreatPos # ZeroVector /\ RLe(Distance(selfPos, bbLastThreatPos), One)) =>
             PoliceProx(bbLastThreatPos, selfPos) = One
       /\ RLe(PoliceProx(bbLastThreatPos, selfPos), One)

\* A tick scored a rival exactly one unit away and a pursuer at distance 0,
\* both with proximity 1.
C5_Witness ==
    /\ lastTick = "written"
    /\ bbRival # NoActor
    /\ Distance(selfPos, bbRival) = One
    /\ bbLastThreatPos # ZeroVector
    /\ Distance(selfPos, bbLastThreatPos) = Zero
    /\ RivalProx(bbRival, selfPos) = One
    /\ PoliceProx(bbLastThreatPos, selfPos) = One

\* C6: the threat written equals clamp(RivalWeight * rivalProx + PoliceWeight *
\* pursuerProx + SpeedWeight * speedRisk + DamageWeight * damageRisk, 0, 1) with
\* the weights as configured; and with the default weights, a rival 10 units
\* away, no pursuer, speed 110 and damage 0.2 it is 0.13, the intensity 0.478.
C6_WeightedSum ==
    produced =>
       LET inv(d) == IF RLt(One, d) THEN RDiv(One, d) ELSE One
           rp == IF bbRival = NoActor THEN Zero ELSE inv(Distance(selfPos, bbRival))
           pp == IF bbLastThreatPos = ZeroVector THEN Zero
                 ELSE inv(Distance(selfPos, bbLastThreatPos))
           q  == RDiv(bbSpeedKmh, MaxSpeedKmh)
           sr == IF RLt(q, Zero) THEN Zero ELSE IF RLt(One, q) THEN One ELSE q
           dr == IF RLt(bbDamagePct, Zero) THEN Zero
                 ELSE IF RLt(One, bbDamagePct) THEN One ELSE bbDamagePct
           x  == RAdd(RAdd(RMul(RivalWeight, rp), RMul(PoliceWeight, pp)),
                      RAdd(RMul(SpeedWeight, sr), RMul(DamageWeight, dr)))
       IN  /\ bbThreatLevel =
                 (IF RLt(x, Zero) THEN Zero ELSE IF RLt(One, x) THEN One ELSE x)
           /\ ( /\ Weights = DefaultWeights
                /\ bbRival # NoActor
                /\ Distance(selfPos, bbRival) = Rat(10, 1)
                /\ bbLastThreatPos = ZeroVector
                /\ bbSpeedKmh = Rat(110, 1)
                /\ bbDamagePct = Rat(1, 5) )
              => (bbThreatLevel = Rat(13, 100) /\ bbMotifIntensity = Rat(478, 1000))

\* A tick ran on the worked example and wrote 0.13 and 0.478.
C6_Witness ==
    /\ lastTick = "written"
    /\ Weights = DefaultWeights
    /\ bbRival # NoActor
    /\ Distance(selfPos, bbRival) = Rat(10, 1)
    /\ bbLastThreatPos = ZeroVector
    /\ bbSpeedKmh = Rat(110, 1)
    /\ bbDamagePct = Rat(1, 5)
    /\ bbThreatLevel = Rat(13, 100)
    /\ bbMotifIntensity = Rat(478, 1000)

\* C7: a speed at or above MaxSpeedKmh scores like MaxSpeedKmh, a speed at or
\* below 0 like 0, a damage at or above 1 like 1 and a damage at or below 0 like
\* 0; such a tick still writes its result.
C7_InputsClamped ==
    produced =>
       /\ RLe(MaxSpeedKmh, bbSpeedKmh) =>
             bbThreatLevel =
                CalculateThreat(bbRival, bbLastThreatPos, MaxSpeedKmh, bbDamagePct, selfPos)
       /\ RLe(bbSpeedKmh, Zero) =>
             bbThreatLevel =
                CalculateThreat(bbRival, bbLastThreatPos, Zero, bbDamagePct, selfPos)
       /\ RLe(One, bbDamagePct) =>
             bbThreatLevel =
                CalculateThreat(bbRival, bbLastThreatPos, bbSpeedKmh, One, selfPos)
       /\ RLe(bbDamagePct, Zero) =>
             bbThreatLevel =
                CalculateThreat(bbRival, bbLastThreatPos, bbSpeedKmh, Zero, selfPos)

\* A tick read a speed above MaxSpeedKmh and a damage above 1 and wrote the
\* unsaturated threat of speed risk 1 and damage risk 1.
C7_Witness ==
    /\ lastTick = "written"
    /\ Weights = DefaultWeights
    /\ RLt(MaxSpeedKmh, bbSpeedKmh)
    /\ RLt(One, bbDamagePct)
    /\ bbRival = NoActor
    /\ bbLastThreatPos = ZeroVector
    /\ bbThreatLevel = Rat(20, 100)

\* C18: a tick that finds no blackboard, no AI controller or no pawn leaves the
\* three slots as they were; a tick that finds all three writes all three
\* slots from the world it samples, the SpeedKmh slot with the measured speed
\* as it is (not clamped to [0, MaxSpeedKmh]).
C18_AllOrNothing ==
    [][ /\ lastTick' = "skipped" =>
              <<bbThreatLevel, bbSpeedKmh, bbMotifIntensity>>'
                 = <<bbThreatLevel, bbSpeedKmh, bbMotifIntensity>>
        /\ lastTick' = "written" =>
              /\ bbSpeedKmh' = RMul(IF pawnMotion'.vehicle THEN pawnMotion'.vel
                                    ELSE RAbs(pawnMotion'.vel), Rat(36, 1000))
              /\ bbThreatLevel' = CalculateThreat(bbRival', bbLastThreatPos', bbSpeedKmh',
                                                  bbDamagePct', selfPos')
              /\ bbMotifIntensity' =
                    Clamp(RAdd(Rat(2, 5), RMul(bbThreatLevel', Rat(3, 5))), Zero, One) ]_vars

\* A tick wrote a speed of 300 km/h, above MaxSpeedKmh, with a positive threat;
\* the next tick found an owner missing and the slots still hold those values.
C18_Witness ==
    /\ produced
    /\ lastTick = "skipped"
    /\ bbSpeedKmh = Rat(300, 1)
    /\ RLt(MaxSpeedKmh, bbSpeedKmh)
    /\ RLt(Zero, bbThreatLevel)
    /\ RLt(Zero, bbMotifIntensity)

-----------------------------------------------------------------------------
(* Properties of USoulvanMotifComponent, checked under SpecMotif.          *)

\* C8: from construction on, through any BeginPlay, TickComponent and SetMotif
\* calls, CurrentIntensity is in [0,1]; after SetMotif(m, x) the stored
\* intensity is clamp(x, 0, 1) and the stored motif is m.
C8_IntensityClamped ==
    /\ InUnit(CurrentIntensity)
    /\ lastCall # <<>> =>
          /\ CurrentMotif = lastCall[1].motif
          /\ CurrentIntensity =
                (IF RLt(lastCall[1].arg, Zero) THEN Zero
                 ELSE IF RLt(One, lastCall[1].arg) THEN One ELSE lastCall[1].arg)

\* SetMotif(Calm, 1.3) was the latest call and left (Calm, 1).
C8_Witness ==
    /\ lastCall # <<>>
    /\ lastCall[1].motif = "Calm"
    /\ lastCall[1].arg = Rat(13, 10)
    /\ CurrentMotif = "Calm"
    /\ CurrentIntensity = One

\* C9 as stated: after every SetMotif(m, i) exactly the overlay of kind m is
\* active and the other three are inactive.
C9_Original ==
    lastCall # <<>> => \A k \in Motifs : active[k] = (k = CurrentMotif)

\* C9 as amended: after every SetMotif(m, i) each assigned overlay component is
\* active exactly if its kind is m; an unassigned one is never driven.  So one
\* overlay is active when the component of kind m is assigned, and none otherwise.
C9_AssignedOverlays ==
    lastCall # <<>> =>
       /\ \A k \in Motifs : overlays[k] => active[k] = (k = CurrentMotif)
       /\ \A k \in Motifs : ~overlays[k] => ~active[k]
       /\ Cardinality({k \in Motifs : active[k]}) = (IF overlays[CurrentMotif] THEN 1 ELSE 0)

\* With all four overlays assigned, two calls in a row named different motifs
\* and only the overlay of the latest one is active.
C9_Witness ==
    /\ lastCall # <<>>
    /\ ~lastCall[1].repeat
    /\ lastCall[1].seq = 1
    /\ \A k \in Motifs : overlays[k]
    /\ CurrentMotif = "Cosmic"
    /\ {k \in Motifs : active[k]} = {"Cosmic"}

\* C10: a track is set and started only by a SetMotif call whose target track
\* differs from the track on the music bus, one start per such call; a SetMotif
\* call that names the same motif as the call before it starts no track.
C10_Suppression ==
    [][ /\ playCount' # playCount =>
              /\ lastCall' # lastCall
              /\ playCount' = playCount + 1
              /\ music[CurrentMotif'] # busSound
              /\ busSound' = music[CurrentMotif']
        /\ busSound' # busSound => playCount' # playCount
        /\ (lastCall' # lastCall /\ lastCall # <<>>
               /\ lastCall'[1].motif = lastCall[1].motif) =>
              playCount' = playCount ]_vars

\* A call repeated the motif of the call before it while that motif's track was
\* on the bus, and started nothing; one start had been issued.
C10_Witness ==
    /\ lastCall # <<>>
    /\ lastCall[1].repeat
    /\ ~lastCall[1].started
    /\ hasMusicBus
    /\ music[CurrentMotif] # NoTrack
    /\ busSound = music[CurrentMotif]
    /\ playCount = 1

\* C11 as stated: after every SetMotif(m, i) the track on the music bus is the
\* track configured for m.
C11_Original ==
    (lastCall # <<>> /\ hasMusicBus) => busSound = music[CurrentMotif]

\* C11 as amended: a SetMotif(m, i) call leaves on the music bus the track
\* configured for m when the bus is assigned and m has a track configured;
\* otherwise the call leaves the bus sound as it was, so the track of an
\* earlier motif (or the sound the bus was given) stays on it.
C11_ConfiguredTrack ==
    [][ lastCall' # lastCall =>
           busSound' = (IF hasMusicBus /\ music[CurrentMotif'] # NoTrack
                        THEN music[CurrentMotif']
                        ELSE busSound) ]_vars

\* Oracle's track was started, then SetMotif(Cosmic, i) with no Cosmic track
\* configured: Oracle's track is still on the bus.
C11_Witness ==
    /\ lastCall # <<>>
    /\ hasMusicBus
    /\ lastCall[1].motif = "Cosmic"
    /\ ~lastCall[1].started
    /\ music["Cosmic"] = NoTrack
    /\ busSound = music["Oracle"]
    /\ busSound # NoTrack
    /\ playCount = 1

\* A SetMotif step whose (motif, intensity) arguments are those of the call
\* before it.
C12_RepeatedCall ==
    /\ lastCall # <<>>
    /\ lastCall' # lastCall
    /\ lastCall'[1].motif = lastCall[1].motif
    /\ lastCall'[1].arg = lastCall[1].arg

\* C12 as stated: the second of two identical SetMotif calls leaves the stored
\* state as the first left it and issues the same full presentation again:
\* four emission rates, four active flags, pitch and volume.
C12_Original ==
    [][ C12_RepeatedCall =>
          /\ <<CurrentMotif, CurrentIntensity, active, emission,
               busSound, busPitch, busVolume, playCount>>'
               = <<CurrentMotif, CurrentIntensity, active, emission,
                   busSound, busPitch, busVolume, playCount>>
          /\ lastCall'[1].issued = lastCall[1].issued
          /\ DOMAIN lastCall'[1].issued.flags = Motifs
          /\ DOMAIN lastCall'[1].issued.rates = Motifs
          /\ Len(lastCall'[1].issued.bus) = 1 ]_vars

\* C12 as amended: the second of two identical SetMotif calls leaves the stored
\* state as the first left it and issues the same presentation again, not
\* skipping it: an active flag and an emission rate to every assigned overlay,
\* pitch and volume multipliers to the music bus if it is assigned.
C12_Deterministic ==
    [][ C12_RepeatedCall =>
          /\ <<CurrentMotif, CurrentIntensity, active, emission,
               busSound, busPitch, busVolume, playCount>>'
               = <<CurrentMotif, CurrentIntensity, active, emission,
                   busSound, busPitch, busVolume, playCount>>
          /\ lastCall'[1].issued = lastCall[1].issued
          /\ DOMAIN lastCall'[1].issued.flags = {k \in Motifs : overlays[k]}
          /\ DOMAIN lastCall'[1].issued.rates = {k \in Motifs : overlays[k]}
          /\ Len(lastCall'[1].issued.bus) = (IF hasMusicBus THEN 1 ELSE 0) ]_vars

\* SetMotif(Oracle, 0.3) was called twice in a row with every overlay and the
\* music bus assigned; the second call issued the full presentation.
C12_Witness ==
    /\ lastCall # <<>>
    /\ lastCall[1].repeat
    /\ lastCall[1].seq = 1
    /\ lastCall[1].motif = "Oracle"
    /\ lastCall[1].arg = Rat(3, 10)
    /\ CurrentIntensity = Rat(3, 10)
    /\ DOMAIN lastCall[1].issued.rates = Motifs
    /\ lastCall[1].issued.rates["Oracle"] = emission["Oracle"]
    /\ lastCall[1].issued.flags = active
    /\ Len(lastCall[1].issued.bus) = 1
    /\ lastCall[1].issued.bus[1].pitch = busPitch

\* The rate C13 gives overlay kind k after SetMotif(m, x): (10 + 190 * i) times
\* the multiplier of k, with i = clamp(x, 0, 1).
C13_Rate(k, x) ==
    RMul(RAdd(Rat(10, 1),
              RMul(Rat(190, 1),
                   IF RLt(x, Zero) THEN Zero ELSE IF RLt(One, x) THEN One ELSE x)),
         CASE k = "Storm"  -> Rat(1, 1)
           [] k = "Calm"   -> Rat(1, 2)
           [] k = "Cosmic" -> Rat(4, 5)
           [] k = "Oracle" -> Rat(3, 5))

\* C13 as stated: after every SetMotif(m, x) all four overlay kinds hold the
\* rate C13_Rate(k, x), whatever m is.
C13_Original ==
    lastCall # <<>> =>
        \A k \in Motifs : emission[k] = C13_Rate(k, lastCall[1].arg)

\* C13 as amended: after every SetMotif(m, x) every assigned overlay holds the
\* rate C13_Rate(k, x), active or not and whatever m is; an unassigned overlay
\* receives no rate.  SetMotif(Calm, 1.3) stores 1.0 and, with the Calm overlay
\* assigned, gives it the rate 100.
C13_EmissionRates ==
    lastCall # <<>> =>
        /\ \A k \in Motifs :
              emission[k] = (IF overlays[k] THEN C13_Rate(k, lastCall[1].arg) ELSE Zero)
        /\ DOMAIN lastCall[1].issued.rates = {k \in Motifs : overlays[k]}
        /\ (lastCall[1].motif = "Calm" /\ lastCall[1].arg = Rat(13, 10)) =>
              /\ CurrentIntensity = One
              /\ overlays["Calm"] => emission["Calm"] = Rat(100, 1)

\* SetMotif(Calm, 1.3) with all four overlays assigned: the rates are
\* 200, 100, 160, 120 and only Calm is active.
C13_Witness ==
    /\ lastCall # <<>>
    /\ lastCall[1].motif = "Calm"
    /\ lastCall[1].arg = Rat(13, 10)
    /\ \A k \in Motifs : overlays[k]
    /\ emission = [Storm |-> Rat(200, 1), Calm |-> Rat(100, 1),
                   Cosmic |-> Rat(160, 1), Oracle |-> Rat(120, 1)]
    /\ {k \in Motifs : active[k]} = {"Calm"}

\* C14: (CurrentMotif, CurrentIntensity) is (Storm, 0.5) until the first
\* SetMotif and from then on the arguments of the latest SetMotif, intensity
\* clamped; a BeginPlay step and every step that is not a SetMotif call
\* (TickComponent among them) leave the pair as it was.
C14_OnlySetMotif ==
    [][ /\ lastCall = <<>> => (CurrentMotif = "Storm" /\ CurrentIntensity = Rat(1, 2))
        /\ lastCall' # <<>> =>
              /\ CurrentMotif' = lastCall'[1].motif
              /\ CurrentIntensity' =
                    (IF RLt(lastCall'[1].arg, Zero) THEN Zero
                     ELSE IF RLt(One, lastCall'[1].arg) THEN One ELSE lastCall'[1].arg)
        /\ (begun' # begun \/ lastCall' = lastCall) =>
              <<CurrentMotif, CurrentIntensity>>' = <<CurrentMotif, CurrentIntensity>> ]_vars

\* BeginPlay ran after SetMotif(Calm, 1.3) and left (Calm, 1.0): the latest
\* SetMotif is BeginPlay's own, with the stored pair as its arguments.
C14_Witness ==
    /\ begun
    /\ lastCall # <<>>
    /\ lastCall[1].seq = 1
    /\ lastCall[1].motif = "Calm"
    /\ lastCall[1].arg = One
    /\ CurrentMotif = "Calm"
    /\ CurrentIntensity = One

-----------------------------------------------------------------------------
(* Properties of USoulvanWalletSubsystem.                                  *)

\* Operation, its delegate, and the kind of timer that completes it.
C15_Completions ==
    { <<"UnlockWallet", "OnWalletUnlocked", "Unlock">>,
      <<"SendTokens", "OnTransactionComplete", "Send">>,
      <<"MintNft", "OnNftMinted", "Mint">>,
      <<"VoteOnProposal", "OnVoteCast", "Vote">> }

\* Every accepted call is either still pending or has had its one broadcast.
C15_Accounted ==
    /\ \A c \in C15_Completions : accepted[c[1]] = broadcast[c[2]] + Pending(c[3])
    /\ accepted["LockWallet"] = broadcast["OnWalletLocked"]

\* One step broadcasts at most once on each delegate; a completion delegate
\* only as one pending timer of its kind expires, OnWalletLocked only within a
\* LockWallet call.
C15_OneAtATime ==
    /\ \A c \in C15_Completions :
          broadcast'[c[2]] # broadcast[c[2]] =>
              /\ broadcast'[c[2]] = broadcast[c[2]] + 1
              /\ Pending(c[3])' = Pending(c[3]) - 1
              /\ accepted'[c[1]] = accepted[c[1]]
    /\ broadcast'["OnWalletLocked"] # broadcast["OnWalletLocked"] =>
              /\ broadcast'["OnWalletLocked"] = broadcast["OnWalletLocked"] + 1
              /\ accepted'["LockWallet"] = accepted["LockWallet"] + 1
    /\ Cardinality({d \in Delegates : broadcast'[d] # broadcast[d]}) <= 1

\* Every accepted call has had its broadcast.
C15_CaughtUp ==
    \A c \in C15_Completions : broadcast[c[2]] = accepted[c[1]]

\* C15: each UnlockWallet call, each accepted SendTokens, MintNft and
\* VoteOnProposal call and each LockWallet call has exactly one broadcast of its
\* delegate: none is broadcast twice or again later, and with the timer manager
\* running every scheduled completion eventually fires (the counters only
\* grow, so whatever was accepted by some moment has been broadcast by the
\* next moment at which every accepted call has had its broadcast).
C15_SingleDispatch ==
    /\ []C15_Accounted
    /\ [][C15_OneAtATime]_vars
    /\ []<>C15_CaughtUp

\* UnlockWallet, MintNft and VoteOnProposal were each called once and the
\* wallet was then locked by Deinitialize; each of their delegates has
\* broadcast once and no completion is pending.
C15_Witness ==
    /\ accepted = [o \in Operations |-> IF o = "SendTokens" THEN 0 ELSE 1]
    /\ broadcast = [d \in Delegates |-> IF d = "OnTransactionComplete" THEN 0 ELSE 1]
    /\ \A c \in C15_Completions : Pending(c[3]) = 0
    /\ ~bIsUnlocked
    /\ ~alive

\* C16 as stated: whenever the wallet is locked, WalletAddress is empty and the
\* three caches hold their cleared values.
C16_ClearedWhileLocked ==
    ~bIsUnlocked =>
        /\ WalletAddress = <<>>
        /\ CachedBalances = DefaultBalances
        /\ CachedNfts = <<>>
        /\ CachedProposals = <<>>

\* C17 as stated: from a LockWallet or Deinitialize until the next UnlockWallet
\* call the wallet stays locked and OnWalletUnlocked is not broadcast, whatever
\* timers were pending.
C17_LockIsFinal ==
    [][ lockStanding' =>
           /\ ~bIsUnlocked'
           /\ broadcast'["OnWalletUnlocked"] = broadcast["OnWalletUnlocked"] ]_vars

\* The pending mint timers that captured MetadataUri u.
C19_MintsInFlight(u) ==
    BagCardinality([t \in {x \in BagToSet(timers) : x.kind = "Mint" /\ x.MetadataUri = u}
                       |-> timers[t]])

\* C19 as stated: PendingRewards holds one entry per accepted MintNft call whose
\* callback has not fired, counted per MetadataUri, and is empty when no mint is
\* in flight.
C19_TracksMintsInFlight ==
    /\ \A u \in UriSamples :
          Cardinality({i \in 1..Len(PendingRewards) : PendingRewards[i] = u})
             = C19_MintsInFlight(u)
    /\ Pending("Mint") = 0 => PendingRewards = <<>>

====
